---- MODULE Spec2Model ----
(***************************************************************************)
(* Scrollable viewport of lapce (core/src/scroll.rs): Viewport /           *)
(* ViewportNew, ClipBox / ClipBoxNew, ScrollComponent(New) and the         *)
(* LapceScroll / LapceScrollNew containers.                                *)
(*                                                                         *)
(* Numbers.  The code computes in f64.  Lengths are modelled as integers   *)
(* counting units of 1e-6 px, the granularity at which the comparison      *)
(* `hypot2() > 1e-12` of pan_to acts: a squared distance of n units^2 is   *)
(* n * 1e-12 px^2, so the comparison is n > Eps2 with Eps2 = 1.  One pixel *)
(* is Px units.  Values that the code rounds to whole pixels (ceil, round, *)
(* BoxConstraints sizes) are multiples of Px.  Floating point rounding     *)
(* error, NaN and infinities are outside the model.                        *)
(***************************************************************************)
EXTENDS Integers, Sequences, FiniteSets, TLC

VARIABLES
    widget,   \* which container was constructed: "LapceScroll" or "LapceScrollNew"
    port,     \* clip.port: [content_size |-> Size, rect |-> Rect]
    sc,       \* scroll_component: opacity, timer_id, fade_interval_id, hovered, held
    timers,   \* the tokens of the timers requested and not yet fired
    events,   \* how many input events the container has been given
    reset_timer,  \* the token given to the latest reset_scrollbar_fade, INVALID once fired
    last,     \* the last clip box operation called and what it returned
    constrain,  \* clip.constrain_horizontal and clip.constrain_vertical
    fs,       \* the files of the configuration directory: settings.toml, workspaces.toml
    wrapper   \* a LapceIdentityWrapper: its id, the calls its inner widget got, the
              \* calls made on the wrapper

vars == <<widget, port, sc, timers, events, reset_timer, last, constrain, fs, wrapper>>

\* ------------------------------------------------------------- numbers

\* units (1e-6 px) per pixel
Px == 1000000

\* the threshold 1e-12 px^2 of pan_to / force_pan_to, in units^2
Eps2 == 1

\* largest distance, in units, by which the content exceeds the view
MaxOff == 2

\* the size of a laid-out view: 100 px
V == 100 * Px

Min(a, b) == IF a <= b THEN a ELSE b

Max(a, b) == IF a >= b THEN a ELSE b

Abs(a) == IF a < 0 THEN -a ELSE a

\* f64::ceil of a length: up to the next whole pixel
Ceil(a) == IF a % Px = 0 THEN a ELSE a + (Px - (a % Px))

\* ------------------------------------------------------------- kurbo

Point(x, y) == [x |-> x, y |-> y]

Vec2(x, y) == [x |-> x, y |-> y]

Size(w, h) == [width |-> w, height |-> h]

Rect(x0, y0, x1, y1) == [x0 |-> x0, y0 |-> y0, x1 |-> x1, y1 |-> y1]

Rect_ZERO == Rect(0, 0, 0, 0)

Size_ZERO == Size(0, 0)

Rect_width(r) == r.x1 - r.x0

Rect_height(r) == r.y1 - r.y0

Rect_origin(r) == Point(r.x0, r.y0)

Rect_size(r) == Size(Rect_width(r), Rect_height(r))

Rect_min_x(r) == Min(r.x0, r.x1)

Rect_max_x(r) == Max(r.x0, r.x1)

Rect_min_y(r) == Min(r.y0, r.y1)

Rect_max_y(r) == Max(r.y0, r.y1)

\* Rect::from_origin_size = Rect::from_points(origin, origin + size), which
\* orders the two corners
Rect_from_origin_size(o, s) ==
    Rect(Min(o.x, o.x + s.width), Min(o.y, o.y + s.height),
         Max(o.x, o.x + s.width), Max(o.y, o.y + s.height))

Rect_with_origin(r, o) == Rect_from_origin_size(o, Rect_size(r))

Rect_with_size(r, s) == Rect_from_origin_size(Rect_origin(r), s)

\* (a - b).hypot2()
Hypot2(a, b) == (a.x - b.x) * (a.x - b.x) + (a.y - b.y) * (a.y - b.y)

\* ------------------------------------------------------------- druid

\* Size::expand: each length rounded away from zero to a whole pixel
Size_expand(s) == Size(Ceil(s.width), Ceil(s.height))

\* BoxConstraints::constrain: size.expand().clamp(min, max)
BoxConstraints_constrain(bc, s) ==
    LET e == Size_expand(s)
    IN  Size(Min(Max(e.width, bc.min.width), bc.max.width),
             Min(Max(e.height, bc.min.height), bc.max.height))

\* ------------------------------------------------------------- Viewport

Viewport_default == [content_size |-> Size_ZERO, rect |-> Rect_ZERO]

Viewport_clamp_view_origin(self, origin) ==
    LET x == Max(Min(origin.x, self.content_size.width - Rect_width(self.rect)), 0)
        y == Max(Min(origin.y, self.content_size.height - Rect_height(self.rect)), 0)
    IN  Point(x, y)

Viewport_pan_to(self, origin) ==
    LET new_origin == Viewport_clamp_view_origin(self, origin)
    IN  IF Hypot2(new_origin, Rect_origin(self.rect)) > Eps2
        THEN [port |-> [self EXCEPT !.rect = Rect_with_origin(self.rect, new_origin)],
              ret |-> TRUE]
        ELSE [port |-> self, ret |-> FALSE]

Viewport_pan_by(self, delta) ==
    Viewport_pan_to(self, Point(self.rect.x0 + delta.x, self.rect.y0 + delta.y))

Viewport_force_pan_to(self, origin) ==
    IF Hypot2(origin, Rect_origin(self.rect)) > Eps2
    THEN [port |-> [self EXCEPT !.rect = Rect_with_origin(self.rect, origin)],
          ret |-> TRUE]
    ELSE [port |-> self, ret |-> FALSE]

\* ------------------------------------------------------------- ViewportNew

\* clamp_view_origin without the lower bound .max(0.0)
ViewportNew_clamp_view_origin_no_floor(self, origin) ==
    Point(Min(origin.x, self.content_size.width - Rect_width(self.rect)),
          Min(origin.y, self.content_size.height - Rect_height(self.rect)))

ViewportNew_clamp_view_origin(self, origin) ==
    LET x == Max(Min(origin.x, self.content_size.width - Rect_width(self.rect)), 0)
        y == Max(Min(origin.y, self.content_size.height - Rect_height(self.rect)), 0)
    IN  Point(x, y)

\* pan_to measuring the move from the requested origin instead of the current one
ViewportNew_pan_to_from_request(self, origin) ==
    LET new_origin == ViewportNew_clamp_view_origin(self, origin)
    IN  IF Hypot2(new_origin, origin) > Eps2
        THEN [port |-> [self EXCEPT !.rect = Rect_with_origin(self.rect, new_origin)],
              ret |-> TRUE]
        ELSE [port |-> self, ret |-> FALSE]

ViewportNew_pan_to(self, origin) ==
    LET new_origin == ViewportNew_clamp_view_origin(self, origin)
    IN  IF Hypot2(new_origin, Rect_origin(self.rect)) > Eps2
        THEN [port |-> [self EXCEPT !.rect = Rect_with_origin(self.rect, new_origin)],
              ret |-> TRUE]
        ELSE [port |-> self, ret |-> FALSE]

\* pan_by taking the delta for the new origin
ViewportNew_pan_by_absolute(self, delta) ==
    ViewportNew_pan_to(self, Point(delta.x, delta.y))

ViewportNew_pan_by(self, delta) ==
    ViewportNew_pan_to(self, Point(self.rect.x0 + delta.x, self.rect.y0 + delta.y))

ViewportNew_force_pan_to(self, origin) ==
    [self EXCEPT !.rect = Rect_with_origin(self.rect, origin)]

\* closest_on_axis blind to what lies past the far edge
closest_on_axis_near_only(val, min, max) ==
    IF val > min /\ val < max THEN 0
    ELSE IF val <= min THEN val - min
    ELSE 0

closest_on_axis(val, min, max) ==
    IF val > min /\ val < max THEN 0
    ELSE IF val <= min THEN val - min
    ELSE val - max

\* pan_to_visible taking, on each axis, the shorter of the two displacements
ViewportNew_pan_to_visible_shorter(self, rect0) ==
    LET target_size == Size(Min(Rect_width(rect0), Rect_width(self.rect)),
                            Min(Rect_height(rect0), Rect_height(self.rect)))
        rect == Rect_with_size(rect0, target_size)
        x0 == closest_on_axis(Rect_min_x(rect), Rect_min_x(self.rect), Rect_max_x(self.rect))
        x1 == closest_on_axis(Rect_max_x(rect), Rect_min_x(self.rect), Rect_max_x(self.rect))
        y0 == closest_on_axis(Rect_min_y(rect), Rect_min_y(self.rect), Rect_max_y(self.rect))
        y1 == closest_on_axis(Rect_max_y(rect), Rect_min_y(self.rect), Rect_max_y(self.rect))
        delta_x == IF Abs(x0) < Abs(x1) THEN x0 ELSE x1
        delta_y == IF Abs(y0) < Abs(y1) THEN y0 ELSE y1
        new_origin == Point(self.rect.x0 + delta_x, self.rect.y0 + delta_y)
    IN  ViewportNew_pan_to(self, new_origin)

\* pan_to_visible without cutting the target down to the size of the view
ViewportNew_pan_to_visible_whole(self, rect0) ==
    LET rect == rect0
        x0 == closest_on_axis(Rect_min_x(rect), Rect_min_x(self.rect), Rect_max_x(self.rect))
        x1 == closest_on_axis(Rect_max_x(rect), Rect_min_x(self.rect), Rect_max_x(self.rect))
        y0 == closest_on_axis(Rect_min_y(rect), Rect_min_y(self.rect), Rect_max_y(self.rect))
        y1 == closest_on_axis(Rect_max_y(rect), Rect_min_y(self.rect), Rect_max_y(self.rect))
        delta_x == IF Abs(x0) > Abs(x1) THEN x0 ELSE x1
        delta_y == IF Abs(y0) > Abs(y1) THEN y0 ELSE y1
        new_origin == Point(self.rect.x0 + delta_x, self.rect.y0 + delta_y)
    IN  ViewportNew_pan_to(self, new_origin)

ViewportNew_pan_to_visible(self, rect0) ==
    LET target_size == Size(Min(Rect_width(rect0), Rect_width(self.rect)),
                            Min(Rect_height(rect0), Rect_height(self.rect)))
        rect == Rect_with_size(rect0, target_size)
        x0 == closest_on_axis(Rect_min_x(rect), Rect_min_x(self.rect), Rect_max_x(self.rect))
        x1 == closest_on_axis(Rect_max_x(rect), Rect_min_x(self.rect), Rect_max_x(self.rect))
        y0 == closest_on_axis(Rect_min_y(rect), Rect_min_y(self.rect), Rect_max_y(self.rect))
        y1 == closest_on_axis(Rect_max_y(rect), Rect_min_y(self.rect), Rect_max_y(self.rect))
        delta_x == IF Abs(x0) > Abs(x1) THEN x0 ELSE x1
        delta_y == IF Abs(y0) > Abs(y1) THEN y0 ELSE y1
        new_origin == Point(self.rect.x0 + delta_x, self.rect.y0 + delta_y)
    IN  ViewportNew_pan_to(self, new_origin)

\* ------------------------------------------------------------- ClipBox, ClipBoxNew

\* ClipBox::layout: what it does to the port, given the size the child returns
ClipBox_layout(self, bc, content_size) ==
    LET p1 == [self EXCEPT !.content_size = content_size]
        p2 == [p1 EXCEPT !.rect = Rect_with_size(p1.rect, BoxConstraints_constrain(bc, content_size))]
        new_offset == Viewport_clamp_view_origin(p2, Rect_origin(p2.rect))
    IN  Viewport_pan_to(p2, new_offset).port

\* layout without the closing pan_to(new_offset)
ClipBoxNew_layout_no_pan(self, bc, content_size) ==
    LET p1 == [self EXCEPT !.content_size = content_size]
    IN  [p1 EXCEPT !.rect = Rect_with_size(p1.rect, BoxConstraints_constrain(bc, content_size))]

ClipBoxNew_layout(self, bc, content_size) ==
    LET p1 == [self EXCEPT !.content_size = content_size]
        p2 == [p1 EXCEPT !.rect = Rect_with_size(p1.rect, BoxConstraints_constrain(bc, content_size))]
        new_offset == ViewportNew_clamp_view_origin(p2, Rect_origin(p2.rect))
    IN  ViewportNew_pan_to(p2, new_offset).port

\* f64::INFINITY: above every length
INFINITY == 2000 * Px

\* ClipBox::new / ClipBoxNew::new: the two constrain flags
ClipBox_new == [horizontal |-> FALSE, vertical |-> FALSE]

\* LapceScroll::vertical / LapceScrollNew::vertical
LapceScroll_vertical(flags) == [flags EXCEPT !.vertical = FALSE, !.horizontal = TRUE]

\* LapceScroll::horizontal / LapceScrollNew::horizontal
LapceScroll_horizontal(flags) == [flags EXCEPT !.vertical = TRUE, !.horizontal = FALSE]

\* BoxConstraints::new: both sizes expanded to whole pixels
BoxConstraints_new(min, max) == [min |-> Size_expand(min), max |-> Size_expand(max)]

\* ClipBox::layout: the constraints handed to the child
ClipBox_child_bc(flags, bc) ==
    BoxConstraints_new(bc.max,
        Size(IF flags.horizontal THEN bc.max.width ELSE INFINITY,
             IF flags.vertical THEN bc.max.height ELSE INFINITY))

\* ClipBoxNew::layout: the child is laid out with bc itself
ClipBoxNew_child_bc(flags, bc) == bc

\* a size within constraints
BoxConstraints_contains(bc, size) ==
    /\ bc.min.width <= size.width /\ size.width <= bc.max.width
    /\ bc.min.height <= size.height /\ size.height <= bc.max.height

\* ------------------------------------------------------------- quotients

\* f64::round of a length: to the nearest whole pixel, halves away from zero
Round(a) ==
    IF a >= 0 THEN (a + (Px \div 2)) - ((a + (Px \div 2)) % Px)
    ELSE 0 - (((0 - a) + (Px \div 2)) - (((0 - a) + (Px \div 2)) % Px))

\* the least integer not below n / d, for d > 0
CeilInt(n, d) == (n \div d) + (IF n % d = 0 THEN 0 ELSE 1)

\* (a * b / c).ceil() for c > 0, exactly: a * b / c = a + a * (b - c) / c, which keeps
\* every intermediate value within 32 bits while b and c differ by a few units
CeilMulDiv(a, b, c) == Ceil(a + CeilInt(a * (b - c), c))

\* ------------------------------------------------------------- theme

SCROLLBAR_MIN_SIZE == 45 * Px

\* env.get(theme::SCROLLBAR_WIDTH), as reload_env sets it
SCROLLBAR_WIDTH == 10 * Px

\* env.get(theme::SCROLLBAR_PAD), as reload_env sets it
SCROLLBAR_PAD == 0

\* env.get(theme::SCROLLBAR_MAX_OPACITY), in units of 0.01
MaxOpacity == 3

\* let diff = 0.02, in units of 0.01
Diff == 2

\* TimerToken::INVALID
INVALID == 0

\* the number of input events (mouse, wheel, command, size, layout) that arrive
MaxEvents == 3

\* TimerToken values: a token is reused once no timer and no field holds it
Tokens == 1 .. (MaxEvents + 3)

\* the theme keys the scrollbars read from the Env
Env(bar_width, bar_pad) == [SCROLLBAR_WIDTH |-> bar_width, SCROLLBAR_PAD |-> bar_pad]

\* the Env after Config::reload_env
Config_reload_env == Env(SCROLLBAR_WIDTH, SCROLLBAR_PAD)

\* ------------------------------------------------------------- scrollbars

Some(r) == [some |-> TRUE, rect |-> r]

None == [some |-> FALSE, rect |-> Rect_ZERO]

\* Rect::contains
Rect_contains(r, p) == p.x >= r.x0 /\ p.x < r.x1 /\ p.y >= r.y0 /\ p.y < r.y1

\* length: (percent_visible * viewport length).ceil().max(SCROLLBAR_MIN_SIZE)
bar_length(view, content) == Max(CeilMulDiv(view, view, content), SCROLLBAR_MIN_SIZE)

\* top_y_offset / left_x_offset:
\* ((viewport length - length - padding) * percent_scrolled).ceil()
bar_offset(view, content, length, scroll, env) ==
    CeilMulDiv(view - length - (env.SCROLLBAR_PAD + env.SCROLLBAR_PAD + env.SCROLLBAR_WIDTH),
               scroll, content - view)

\* the rectangle of the vertical bar, given top_y_offset and bottom_y_offset
vertical_bar_rect(p, env, top_y_offset, bottom_y_offset) ==
    Rect(p.rect.x0 + Rect_width(p.rect) - env.SCROLLBAR_WIDTH - env.SCROLLBAR_PAD,
         p.rect.y0 + top_y_offset + env.SCROLLBAR_PAD,
         p.rect.x0 + Rect_width(p.rect) - env.SCROLLBAR_PAD,
         p.rect.y0 + bottom_y_offset)

\* the rectangle of the vertical bar, given its length
vertical_bar_of(p, env, length, top_y_offset) ==
    vertical_bar_rect(p, env, top_y_offset, top_y_offset + length)

\* calc_vertical_bar_bounds showing no bar until the content is a pixel taller
calc_vertical_bar_bounds_whole_pixel(p, env) ==
    IF Rect_height(p.rect) + Px >= p.content_size.height THEN None
    ELSE Some(vertical_bar_of(p, env,
                  bar_length(Rect_height(p.rect), p.content_size.height),
                  bar_offset(Rect_height(p.rect), p.content_size.height,
                             bar_length(Rect_height(p.rect), p.content_size.height),
                             p.rect.y0, env)))

\* ScrollComponent::calc_vertical_bar_bounds and ScrollComponentNew's, which is the same
calc_vertical_bar_bounds(p, env) ==
    IF Rect_height(p.rect) >= p.content_size.height THEN None
    ELSE Some(vertical_bar_of(p, env,
                  bar_length(Rect_height(p.rect), p.content_size.height),
                  bar_offset(Rect_height(p.rect), p.content_size.height,
                             bar_length(Rect_height(p.rect), p.content_size.height),
                             p.rect.y0, env)))

\* the rectangle of the horizontal bar, given left_x_offset and right_x_offset
horizontal_bar_rect(p, env, left_x_offset, right_x_offset) ==
    Rect(p.rect.x0 + left_x_offset + env.SCROLLBAR_PAD,
         p.rect.y0 + Rect_height(p.rect) - env.SCROLLBAR_WIDTH - env.SCROLLBAR_PAD,
         p.rect.x0 + right_x_offset,
         p.rect.y0 + Rect_height(p.rect) - env.SCROLLBAR_PAD)

\* the rectangle of the horizontal bar, given its length
horizontal_bar_of(p, env, length, left_x_offset) ==
    horizontal_bar_rect(p, env, left_x_offset, left_x_offset + length)

\* ScrollComponent::calc_horizontal_bar_bounds and ScrollComponentNew's, which is the same
calc_horizontal_bar_bounds(p, env) ==
    IF Rect_width(p.rect) >= p.content_size.width THEN None
    ELSE Some(horizontal_bar_of(p, env,
                  bar_length(Rect_width(p.rect), p.content_size.width),
                  bar_offset(Rect_width(p.rect), p.content_size.width,
                             bar_length(Rect_width(p.rect), p.content_size.width),
                             p.rect.x0, env)))

\* the hit test without the stretch to the edge of the widget
hits_vertical_unstretched(p, bounds, pos) ==
    /\ bounds.some
    /\ Rect_contains(bounds.rect, pos)

\* the hit test on bounds already computed
hits_vertical(p, bounds, pos) ==
    /\ bounds.some
    /\ Rect_contains([bounds.rect EXCEPT !.x1 = p.rect.x0 + Rect_width(p.rect)], pos)

hits_horizontal(p, bounds, pos) ==
    /\ bounds.some
    /\ Rect_contains([bounds.rect EXCEPT !.y1 = p.rect.y0 + Rect_height(p.rect)], pos)

point_hits_vertical_bar(p, pos, env) ==
    hits_vertical(p, calc_vertical_bar_bounds(p, env), pos)

point_hits_horizontal_bar(p, pos, env) ==
    hits_horizontal(p, calc_horizontal_bar_bounds(p, env), pos)

\* ------------------------------------------------------------- ScrollComponent(New)

\* BarHeldState: None, Vertical(offset), Horizontal(offset)
BarHeldState(kind, offset) == [kind |-> kind, offset |-> offset]

ScrollComponent_default ==
    [opacity |-> 0, timer_id |-> INVALID, fade_interval_id |-> INVALID,
     hovered |-> "None", held |-> BarHeldState("None", 0)]

are_bars_held(self) == self.held.kind # "None"

\* An event being handled: the port and the scroll component it may change, the timers
\* requested and not yet fired, ctx.is_handled(), the token the latest
\* reset_scrollbar_fade was given (INVALID once that timer has fired), and whether
\* clip.event has been called
Ctx(p, c, t, h, r) ==
    [port |-> p, sc |-> c, timers |-> t, handled |-> h, reset_timer |-> r,
     child_event |-> FALSE]

\* ctx.request_timer: the token it returns, different from every token in use
TimerToken_next(cx) ==
    CHOOSE t \in Tokens \ (cx.timers \cup {cx.sc.timer_id, cx.sc.fade_interval_id}) :
        \A u \in Tokens \ (cx.timers \cup {cx.sc.timer_id, cx.sc.fade_interval_id}) : t <= u

set_handled(cx) == [cx EXCEPT !.handled = TRUE]

\* reset_scrollbar_fade, given the token request_timer returns
reset_scrollbar_fade_with(cx, t) ==
    [cx EXCEPT !.sc.opacity = MaxOpacity, !.sc.timer_id = t,
               !.timers = @ \cup {t}, !.reset_timer = t]

\* ScrollComponent::reset_scrollbar_fade and ScrollComponentNew's
reset_scrollbar_fade(cx) == reset_scrollbar_fade_with(cx, TimerToken_next(cx))

\* self.fade_interval_id = ctx.request_timer(..), given the token
request_fade_tick_with(cx, t) ==
    [cx EXCEPT !.sc.fade_interval_id = t, !.timers = @ \cup {t}]

request_fade_tick(cx) == request_fade_tick_with(cx, TimerToken_next(cx))

\* Event::Timer(id) if *id == self.timer_id
ScrollComponentNew_timer_arm(cx) ==
    set_handled(request_fade_tick([cx EXCEPT !.sc.timer_id = INVALID]))

\* the fade arm, forgetting to request the next tick
ScrollComponentNew_fade_arm_once(cx) ==
    IF cx.sc.timer_id = INVALID
    THEN [cx EXCEPT !.sc.opacity = @ - Diff]
    ELSE cx

\* Event::Timer(id) if *id == self.fade_interval_id
ScrollComponentNew_fade_arm(cx) ==
    IF cx.sc.timer_id = INVALID
    THEN IF cx.sc.opacity - Diff > 0
         THEN request_fade_tick([cx EXCEPT !.sc.opacity = @ - Diff])
         ELSE [cx EXCEPT !.sc.opacity = @ - Diff]
    ELSE cx

\* the branch of a held bar; pos is the event's position plus the scroll offset, vb and
\* hb the bounds of the two bars
ScrollComponentNew_event_held(cx, event, pos, vb, hb) ==
    CASE event.type = "MouseMove" /\ cx.sc.held.kind = "Vertical" ->
           set_handled([cx EXCEPT !.port = ViewportNew_pan_by(cx.port,
               Vec2(0, CeilMulDiv(pos.y - vb.rect.y0 - cx.sc.held.offset,
                                  cx.port.content_size.height,
                                  Rect_height(cx.port.rect)))).port])
      [] event.type = "MouseMove" /\ cx.sc.held.kind = "Horizontal" ->
           set_handled([cx EXCEPT !.port = ViewportNew_pan_by(cx.port,
               Vec2(CeilMulDiv(pos.x - hb.rect.x0 - cx.sc.held.offset,
                               cx.port.content_size.width,
                               Rect_height(cx.port.rect)), 0)).port])
      [] event.type = "MouseUp" ->
           set_handled(
               IF ~(hits_vertical(cx.port, vb, pos) \/ hits_horizontal(cx.port, hb, pos))
               THEN reset_scrollbar_fade([cx EXCEPT !.sc.held = BarHeldState("None", 0),
                                                    !.sc.hovered = "None"])
               ELSE [cx EXCEPT !.sc.held = BarHeldState("None", 0)])
      [] OTHER -> cx

\* the branch of a mouse event over a bar that is not held
ScrollComponentNew_event_hovered(cx, event, pos, vb, hb) ==
    CASE event.type = "MouseMove" ->
           set_handled([cx EXCEPT
               !.sc.hovered = IF hits_vertical(cx.port, vb, pos)
                              THEN "Vertical" ELSE "Horizontal",
               !.sc.opacity = MaxOpacity,
               !.sc.timer_id = INVALID])
      [] event.type = "MouseDown" ->
           set_handled([cx EXCEPT !.sc.held =
               IF hits_vertical(cx.port, vb, pos)
               THEN BarHeldState("Vertical", pos.y - vb.rect.y0)
               ELSE BarHeldState("Horizontal", pos.x - hb.rect.x0)])
      [] OTHER -> cx

\* the last branch: no bar held, no mouse event over a bar
ScrollComponentNew_event_else(cx, event) ==
    CASE event.type = "MouseMove" ->
           IF cx.sc.hovered # "None"
           THEN reset_scrollbar_fade([cx EXCEPT !.sc.hovered = "None"])
           ELSE cx
      [] event.type = "Timer" /\ event.id = cx.sc.timer_id ->
           ScrollComponentNew_timer_arm(cx)
      [] event.type = "Timer" /\ event.id # cx.sc.timer_id
            /\ event.id = cx.sc.fade_interval_id ->
           ScrollComponentNew_fade_arm(cx)
      [] OTHER -> cx

\* the three branches of ScrollComponentNew::event, given the bounds of the bars
ScrollComponentNew_event_at(cx, event, pos, vb, hb) ==
    IF are_bars_held(cx.sc)
    THEN ScrollComponentNew_event_held(cx, event, pos, vb, hb)
    ELSE IF /\ event.type \in {"MouseMove", "MouseUp", "MouseDown"}
            /\ (hits_vertical(cx.port, vb, pos) \/ hits_horizontal(cx.port, hb, pos))
    THEN ScrollComponentNew_event_hovered(cx, event, pos, vb, hb)
    ELSE ScrollComponentNew_event_else(cx, event)

ScrollComponentNew_event(cx, event) ==
    ScrollComponentNew_event_at(cx, event,
        Point(event.pos.x + cx.port.rect.x0, event.pos.y + cx.port.rect.y0),
        calc_vertical_bar_bounds(cx.port, Config_reload_env),
        calc_horizontal_bar_bounds(cx.port, Config_reload_env))

\* handle_scroll without the test of ctx.is_handled()
ScrollComponentNew_handle_scroll_always(cx, event) ==
    IF event.type = "Wheel"
    THEN set_handled(reset_scrollbar_fade([cx EXCEPT !.port = ViewportNew_pan_by(cx.port,
             Vec2(Round(event.wheel_delta.x), Round(event.wheel_delta.y))).port]))
    ELSE cx

ScrollComponentNew_handle_scroll(cx, event) ==
    IF ~cx.handled /\ event.type = "Wheel"
    THEN set_handled(reset_scrollbar_fade([cx EXCEPT !.port = ViewportNew_pan_by(cx.port,
             Vec2(Round(event.wheel_delta.x), Round(event.wheel_delta.y))).port]))
    ELSE cx

\* ------------------------------------------------------------- LapceScrollNew

\* if !ctx.is_handled() { self.clip.event(..) }: the child sees the event and may mark
\* it handled
clip_event(cx, child_handles) ==
    IF ~cx.handled
    THEN [cx EXCEPT !.handled = child_handles, !.child_event = TRUE]
    ELSE cx

\* the closing match of LapceScrollNew::event
ResetFade_command(cx, event) ==
    IF event.type = "Command" /\ event.cmd = "ResetFade"
    THEN reset_scrollbar_fade(cx)
    ELSE cx

LapceScrollNew_event(cx, event, child_handles) ==
    ResetFade_command(
        ScrollComponentNew_handle_scroll(
            clip_event(ScrollComponentNew_event(cx, event), child_handles),
            event),
        event)

\* LifeCycle::Size
LapceScrollNew_lifecycle(cx) == reset_scrollbar_fade(cx)

\* the end of LapceScrollNew::layout, given the port that clip.layout and scroll_by leave
LapceScrollNew_layout_end(cx, p) ==
    IF cx.port # p
    THEN reset_scrollbar_fade([cx EXCEPT !.port = p])
    ELSE [cx EXCEPT !.port = p]

LapceScrollNew_layout(cx, bc, content_size) ==
    LapceScrollNew_layout_end(cx,
        ViewportNew_pan_by(ClipBoxNew_layout(cx.port, bc, content_size), Vec2(0, 0)).port)

\* ------------------------------------------------------------- LapceScroll

\* one axis of ensure_visible
ensure_visible_axis(offset, lo, hi, margin, scroll_len, content_len) ==
    IF offset < hi + margin - scroll_len
    THEN Min(hi + margin - scroll_len, content_len - scroll_len)
    ELSE IF offset > lo - margin
    THEN Max(lo - margin, 0)
    ELSE offset

\* the end of ensure_visible, given new_offset
ensure_visible_end(p, new_offset) ==
    IF new_offset = Rect_origin(p.rect)
    THEN [port |-> p, ret |-> FALSE]
    ELSE [port |-> Viewport_pan_to(p, new_offset).port, ret |-> TRUE]

LapceScroll_ensure_visible(p, scroll_size, rect, margin) ==
    ensure_visible_end(p,
        Point(ensure_visible_axis(p.rect.x0, rect.x0, rect.x1, margin[1],
                                  scroll_size.width, p.content_size.width),
              ensure_visible_axis(p.rect.y0, rect.y0, rect.y1, margin[2],
                                  scroll_size.height, p.content_size.height)))

\* the calls of scroll_component.event and handle_scroll are commented out: every
\* event but the three scroll commands goes to the child only
LapceScroll_event(cx, event, child_handles) ==
    CASE event.type = "Command" /\ event.cmd = "EnsureVisible" ->
           [cx EXCEPT !.port = LapceScroll_ensure_visible(cx.port, Rect_size(cx.port.rect),
                                                          event.rect, event.margin).port]
      [] event.type = "Command" /\ event.cmd = "ScrollTo" ->
           [cx EXCEPT !.port = Viewport_pan_to(cx.port, Point(event.xy[1], event.xy[2])).port]
      [] event.type = "Command" /\ event.cmd = "Scroll" ->
           [cx EXCEPT !.port = Viewport_pan_by(cx.port, Vec2(event.xy[1], event.xy[2])).port]
      [] OTHER -> clip_event(cx, child_handles)

\* LifeCycle::Size
LapceScroll_lifecycle(cx) == reset_scrollbar_fade(cx)

LapceScroll_layout(cx, bc, content_size) ==
    [cx EXCEPT !.port = ClipBox_layout(cx.port, bc, content_size)]

\* ------------------------------------------------------------- strings

\* str::split(sep): the pieces of s between the separators, s a sequence of characters
Split(s, sep) ==
    LET parts[i \in 0 .. Len(s)] ==
            IF i = 0 THEN << <<>> >>
            ELSE IF s[i] = sep THEN Append(parts[i - 1], <<>>)
            ELSE [parts[i - 1] EXCEPT ![Len(parts[i - 1])] = Append(@, s[i])]
    IN  parts[Len(s)]

\* str::starts_with
starts_with(s, prefix) ==
    Len(s) >= Len(prefix) /\ SubSeq(s, 1, Len(prefix)) = prefix

\* Option: Some(value), and None carrying a value of the type that is never read
SomeOf(value) == [some |-> TRUE, value |-> value]

NoneOf(value) == [some |-> FALSE, value |-> value]

\* ------------------------------------------------------------- the configuration directory

\* A file is absent, or holds text that is no TOML document, or holds a document.  The
\* serialiser and the parser of the toml crate are not part of this repository: a file
\* written from a toml::Value holds that value.
File(state, value) == [state |-> state, value |-> value]

NoFile == File("absent", <<>>)

\* a file nothing was written to yet: the empty document
EmptyFile == File("toml", <<>>)

\* text that toml::from_str rejects
InvalidFile == File("invalid", <<>>)

NoFiles == [settings |-> NoFile, workspaces |-> NoFile]

\* ------------------------------------------------------------- recent workspaces

\* the width of last_open and of a TOML integer; the code's is 64
IntBits == 4

\* u64 as i64
as_i64(u) == IF u >= 2 ^ (IntBits - 1) THEN u - 2 ^ IntBits ELSE u

\* i64 as u64
as_u64(i) == IF i < 0 THEN i + 2 ^ IntBits ELSE i

\* the string "ssh://"
ssh_prefix == <<"s", "s", "h", ":", "/", "/">>

\* the string "local"
local_kind == <<"l", "o", "c", "a", "l">>

\* LapceWorkspaceType::Local / RemoteSSH(user, host)
Local == [type |-> "Local", user |-> <<>>, host |-> <<>>]

RemoteSSH(user, host) == [type |-> "RemoteSSH", user |-> user, host |-> host]

LapceWorkspace(kind, path, last_open) == [kind |-> kind, path |-> path, last_open |-> last_open]

\* a PathBuf that is valid UTF-8 holds its characters; to_str() of any other is None
NonUtf8 == <<"?">>

\* the "kind" string update_recent_workspaces writes
kind_string(kind) ==
    IF kind.type = "Local" THEN local_kind
    ELSE ssh_prefix \o kind.user \o <<"@">> \o kind.host

\* the table update_recent_workspaces writes for one workspace
workspace_table(workspace) ==
    [kind |-> kind_string(workspace.kind), path |-> workspace.path,
     last_open |-> as_i64(workspace.last_open)]

\* the array of tables of every workspace
workspaces_array(workspaces) ==
    [i \in 1 .. Len(workspaces) |-> workspace_table(workspaces[i])]

\* Config::recent_workspaces_file: the file is created empty when it is absent
recent_workspaces_file(files) ==
    IF files.workspaces.state = "absent"
    THEN [files EXCEPT !.workspaces = EmptyFile]
    ELSE files

\* Config::update_recent_workspaces: the files it leaves
update_recent_workspaces(files, workspaces) ==
    IF \E i \in 1 .. Len(workspaces) : workspaces[i].path = NonUtf8
    THEN recent_workspaces_file(files)
    ELSE [files EXCEPT !.workspaces =
             File("toml", [workspaces |-> workspaces_array(workspaces)])]

\* the kind recent_workspaces reads from a "kind" string, given the pieces that follow
\* "ssh://": None when there are fewer than two
kind_of_parts(parts) ==
    IF Len(parts) < 2 THEN NoneOf(Local)
    ELSE SomeOf(RemoteSSH(parts[1], parts[2]))

kind_of_string(kind) ==
    IF starts_with(kind, ssh_prefix)
    THEN kind_of_parts(Split(SubSeq(kind, 7, Len(kind)), "@"))
    ELSE SomeOf(Local)

\* the workspace recent_workspaces builds from one table, given the kind it read
workspace_of_table(table, kind) ==
    IF kind.some
    THEN << LapceWorkspace(kind.value, table.path, as_u64(table.last_open)) >>
    ELSE << >>

\* filter_map(..).collect() over the tables of the array
workspaces_of_array(array) ==
    LET list[i \in 0 .. Len(array)] ==
            IF i = 0 THEN << >>
            ELSE list[i - 1] \o workspace_of_table(array[i], kind_of_string(array[i].kind))
    IN  list[Len(array)]

\* Config::recent_workspaces, given the file as recent_workspaces_file leaves it
recent_workspaces_of(file) ==
    IF file.state = "toml" /\ "workspaces" \in DOMAIN file.value
    THEN SomeOf(workspaces_of_array(file.value.workspaces))
    ELSE NoneOf(<< >>)

\* Config::recent_workspaces: what it returns
recent_workspaces(files) == recent_workspaces_of(recent_workspaces_file(files).workspaces)

\* ------------------------------------------------------------- settings

\* The document of settings.toml: a function from key paths to what they hold, "table"
\* or a value that is no table; a path is a sequence of keys, each a sequence of
\* characters, and every path under a key path belongs to a table

\* path a leads to path b or to something in it
IsPrefix(a, b) == Len(a) <= Len(b) /\ SubSeq(b, 1, Len(a)) = a

\* Table::insert at the end of path: whatever path held, with all in it, is replaced
Table_insert(doc, path, value) ==
    [p \in {q \in DOMAIN doc : ~IsPrefix(path, q)} \cup {path} |->
        IF p = path THEN value ELSE doc[p]]

\* a key before the last: the table it names, created when missing; get_mut(key)?
\* .as_table_mut()? ends the call when the key holds no table
update_file_enter(doc, path) ==
    IF path \in DOMAIN doc
    THEN [doc |-> doc, ok |-> doc[path] = "table"]
    ELSE [doc |-> Table_insert(doc, path, "table"), ok |-> TRUE]

\* one turn of the loop over the parts of the key
update_file_step(prev, parts, i, value) ==
    IF ~prev.ok THEN prev
    ELSE IF i = Len(parts)
    THEN [doc |-> Table_insert(prev.doc, parts, value), ok |-> TRUE]
    ELSE update_file_enter(prev.doc, SubSeq(parts, 1, i))

\* the loop of update_file
update_file_loop(doc, parts, value) ==
    LET after[i \in 0 .. Len(parts)] ==
            IF i = 0 THEN [doc |-> doc, ok |-> TRUE]
            ELSE update_file_step(after[i - 1], parts, i, value)
    IN  after[Len(parts)]

\* toml::from_slice(&content).unwrap_or(empty table)
settings_document(file) == IF file.state = "toml" THEN file.value ELSE << >>

\* the end of update_file: the file is written when the loop came through
update_file_write(files, looped) ==
    IF looped.ok THEN [files EXCEPT !.settings = File("toml", looped.doc)] ELSE files

\* update_file writing through a key that holds no table
update_file_overwriting(files, key, value) ==
    IF files.settings.state = "absent" THEN files
    ELSE [files EXCEPT !.settings =
             File("toml", Table_insert(settings_document(files.settings),
                                       Split(key, "."), value))]

\* Config::update_file: the files it leaves
update_file(files, key, value) ==
    IF files.settings.state = "absent" THEN files
    ELSE update_file_write(files,
             update_file_loop(settings_document(files.settings), Split(key, "."), value))

\* ------------------------------------------------------------- LapceIdentityWrapper

\* a call of a Widget method: the method, its arguments, and the size it returned (layout)
Call(method, args, size) == [method |-> method, args |-> args, size |-> size]

\* LapceIdentityWrapper::wrap(inner, id); inner is told by the calls it has received, and
\* calls are the calls made on the wrapper with what they returned
LapceIdentityWrapper_wrap(id) == [id |-> id, inner |-> << >>, calls |-> << >>]

\* self.inner.event / lifecycle / update / layout / paint (..): the inner widget gets
\* the call
inner_call(self, method, args, size) ==
    [self EXCEPT !.inner = Append(@, Call(method, args, size))]

\* event, lifecycle, update and paint of the wrapper
LapceIdentityWrapper_forward(self, method, args) ==
    [inner_call(self, method, args, Size_ZERO) EXCEPT
        !.calls = Append(@, Call(method, args, Size_ZERO))]

\* layout returning the smallest size instead of the inner widget's
LapceIdentityWrapper_layout_own_size(self, bc, inner_size) ==
    [inner_call(self, "layout", bc, inner_size) EXCEPT
        !.calls = Append(@, Call("layout", bc, Size_ZERO))]

\* layout of the wrapper, the inner widget answering inner_size
LapceIdentityWrapper_layout(self, bc, inner_size) ==
    [inner_call(self, "layout", bc, inner_size) EXCEPT
        !.calls = Append(@, Call("layout", bc, inner_size))]

\* id()
LapceIdentityWrapper_id(self) == SomeOf(self.id)

\* ------------------------------------------------------------- inputs

\* sizes a child reports: smaller than any laid-out view, or a view and a little more
ContentLens == {0, 1} \cup {V + k : k \in 0 .. MaxOff}

ContentSizes == {Size(w, h) : w \in ContentLens, h \in ContentLens}

\* BoxConstraints hold whole pixels (BoxConstraints::new expands them): tight at V by V,
\* or loose from nothing to V by V
BoxConstraintsSet ==
    {[min |-> Size(a, a), max |-> Size(V, V)] : a \in {0, V}}

\* the inputs are kept to sizes whose content exceeds the view by MaxOff at most
Within(content_size, view_size) ==
    /\ content_size.width - view_size.width <= MaxOff
    /\ content_size.height - view_size.height <= MaxOff

LayoutInputs ==
    {q \in BoxConstraintsSet \X ContentSizes :
        Within(q[2], BoxConstraints_constrain(q[1], q[2]))}

Offs == -1 .. (MaxOff + 1)

Points == {Point(x, y) : x \in Offs, y \in Offs}

\* origins outside every content
ForcePoints == {Point(x, y) : x \in {-1, MaxOff + 1}, y \in {-1, MaxOff + 1}}

DeltaLens == (0 - MaxOff) .. MaxOff

Deltas == {Vec2(x, y) : x \in DeltaLens, y \in DeltaLens}

\* target intervals on one axis: <<start, length>>
Spans ==
    {<<a, 1>> : a \in -1 .. MaxOff} \cup {<<0, 0>>, <<V, 1>>, <<V + 1, 1>>}
        \cup {<<a, V>> : a \in 0 .. MaxOff} \cup {<<0, V + 1>>, <<1, V + 1>>}

Rects == {Rect(h[1], v[1], h[1] + h[2], v[1] + v[2]) : h \in Spans, v \in Spans}

\* ------------------------------------------------------------- inputs of the containers

\* Event, with the fields of every variant
Event(type, pos, wheel_delta, id, cmd, xy, rect, margin) ==
    [type |-> type, pos |-> pos, wheel_delta |-> wheel_delta, id |-> id,
     cmd |-> cmd, xy |-> xy, rect |-> rect, margin |-> margin]

MouseEvent(type, pos) ==
    Event(type, pos, Vec2(0, 0), INVALID, "None", <<0, 0>>, Rect_ZERO, <<0, 0>>)

WheelEvent(wheel_delta) ==
    Event("Wheel", Point(0, 0), wheel_delta, INVALID, "None", <<0, 0>>, Rect_ZERO, <<0, 0>>)

TimerEvent(id) ==
    Event("Timer", Point(0, 0), Vec2(0, 0), id, "None", <<0, 0>>, Rect_ZERO, <<0, 0>>)

CommandEvent(cmd, xy, rect, margin) ==
    Event("Command", Point(0, 0), Vec2(0, 0), INVALID, cmd, xy, rect, margin)

\* mouse positions in the widget: its middle, two on the vertical bar, one on the
\* horizontal bar
MousePoints ==
    {Point(50 * Px, 50 * Px), Point(95 * Px, 50 * Px), Point(95 * Px, 60 * Px),
     Point(50 * Px, 95 * Px)}

\* wheel deltas: three pixels either way, and less than half a pixel
WheelDeltas == {Vec2(0, 3 * Px), Vec2(0, 0 - 3 * Px), Vec2(3 * Px, 0), Vec2(0, 400000)}

NewInputs ==
    {MouseEvent(t, p) : t \in {"MouseMove", "MouseDown", "MouseUp"}, p \in MousePoints}
        \cup {WheelEvent(d) : d \in WheelDeltas}
        \cup {CommandEvent(c, <<0, 0>>, Rect_ZERO, <<0, 0>>) : c \in {"ResetFade", "Other"}}

OldInputs ==
    {CommandEvent("Scroll", <<0, d>>, Rect_ZERO, <<0, 0>>) : d \in {0 - MaxOff, 1}}
        \cup {CommandEvent("ScrollTo", <<0, d>>, Rect_ZERO, <<0, 0>>) : d \in {0, MaxOff}}
        \cup {CommandEvent("EnsureVisible", <<0, 0>>, Rect(0, V, 1, V + 1), <<0, m>>) :
                m \in {0, 1}}
        \cup {CommandEvent("Other", <<0, 0>>, Rect_ZERO, <<0, 0>>), WheelEvent(Vec2(0, 3 * Px))}

\* the containers are laid out at V by V around a child of one of three sizes
ContainerContents == {Size(V, V), Size(V, V + MaxOff), Size(V + MaxOff, V + MaxOff)}

ContainerLayoutInputs ==
    {<<[min |-> Size(V, V), max |-> Size(V, V)], s>> : s \in ContainerContents}

\* ------------------------------------------------------------- operations

New == widget = "LapceScrollNew"

Ret(b) == IF b THEN "true" ELSE "false"

Init ==
    /\ widget \in {"LapceScroll", "LapceScrollNew"}
    /\ port = Viewport_default
    /\ sc = ScrollComponent_default
    /\ timers = {}
    /\ events = 0
    /\ reset_timer = INVALID
    /\ last = [op |-> "new", ret |-> "none"]
    /\ constrain = ClipBox_new
    /\ fs = NoFiles
    /\ wrapper = LapceIdentityWrapper_wrap(1)

\* ClipBox::layout / ClipBoxNew::layout with the child answering content_size
layout(bc, content_size) ==
    /\ port' = IF New THEN ClipBoxNew_layout(port, bc, content_size)
                      ELSE ClipBox_layout(port, bc, content_size)
    /\ last' = [op |-> "layout", ret |-> "none"]
    /\ UNCHANGED <<constrain, fs, wrapper, widget, sc, timers, events, reset_timer>>

\* ClipBox::pan_to / ClipBoxNew::pan_to
pan_to(origin) ==
    LET r == IF New THEN ViewportNew_pan_to(port, origin) ELSE Viewport_pan_to(port, origin)
    IN  /\ port' = r.port
        /\ last' = [op |-> "pan_to", ret |-> Ret(r.ret)]
        /\ UNCHANGED <<constrain, fs, wrapper, widget, sc, timers, events, reset_timer>>

\* ClipBox::pan_by / ClipBoxNew::pan_by
pan_by(delta) ==
    LET r == IF New THEN ViewportNew_pan_by(port, delta) ELSE Viewport_pan_by(port, delta)
    IN  /\ port' = r.port
        /\ last' = [op |-> "pan_by", ret |-> Ret(r.ret)]
        /\ UNCHANGED <<constrain, fs, wrapper, widget, sc, timers, events, reset_timer>>

\* ClipBoxNew::pan_to_visible
pan_to_visible(rect) ==
    /\ New
    /\ LET r == ViewportNew_pan_to_visible(port, rect)
       IN  /\ port' = r.port
           /\ last' = [op |-> "pan_to_visible", ret |-> Ret(r.ret)]
    /\ UNCHANGED <<constrain, fs, wrapper, widget, sc, timers, events, reset_timer>>

\* ClipBox::force_pan_to / ClipBoxNew::force_pan_to
force_pan_to(origin) ==
    /\ IF New
       THEN /\ port' = ViewportNew_force_pan_to(port, origin)
            /\ last' = [op |-> "force_pan_to", ret |-> "none"]
       ELSE LET r == Viewport_force_pan_to(port, origin)
            IN  /\ port' = r.port
                /\ last' = [op |-> "force_pan_to", ret |-> Ret(r.ret)]
    /\ UNCHANGED <<constrain, fs, wrapper, widget, sc, timers, events, reset_timer>>

\* LapceScrollNew::set_child_size
set_child_size(size) ==
    /\ New
    /\ Within(size, Rect_size(port.rect))
    /\ port' = [port EXCEPT !.content_size = size]
    /\ last' = [op |-> "set_child_size", ret |-> "none"]
    /\ UNCHANGED <<constrain, fs, wrapper, widget, sc, timers, events, reset_timer>>

NextPan ==
    \/ \E q \in LayoutInputs : layout(q[1], q[2])
    \/ \E o \in Points : pan_to(o)
    \/ \E d \in Deltas : pan_by(d)
    \/ \E r \in Rects : pan_to_visible(r)

Next ==
    \/ \E q \in LayoutInputs : layout(q[1], q[2])
    \/ \E o \in Points : pan_to(o)
    \/ \E d \in Deltas : pan_by(d)
    \/ \E r \in Rects : pan_to_visible(r)
    \/ \E o \in ForcePoints : force_pan_to(o)
    \/ \E s \in ContentSizes : set_child_size(s)

\* every operation of the clip box
Spec == Init /\ [][Next]_vars

\* layout, pan_to, pan_by and pan_to_visible only
SpecPan == Init /\ [][NextPan]_vars

\* ------------------------------------------------------------- the containers

\* the container as an event finds it
CtxNow(t, r) == Ctx(port, sc, t, FALSE, r)

\* the container as the event leaves it
Commit(cx) ==
    /\ port' = cx.port
    /\ sc' = cx.sc
    /\ timers' = cx.timers
    /\ reset_timer' = cx.reset_timer

\* LapceScroll::event / LapceScrollNew::event on an input event
on_event(event, child_handles) ==
    /\ events < MaxEvents
    /\ event \in (IF New THEN NewInputs ELSE OldInputs)
    /\ Commit(IF New THEN LapceScrollNew_event(CtxNow(timers, reset_timer), event, child_handles)
                     ELSE LapceScroll_event(CtxNow(timers, reset_timer), event, child_handles))
    /\ events' = events + 1
    /\ UNCHANGED <<constrain, fs, wrapper, widget, last>>

\* a requested timer fires: LapceScroll::event / LapceScrollNew::event on Event::Timer(id)
on_timer(id) ==
    /\ id \in timers
    /\ LET cx == CtxNow(timers \ {id}, IF reset_timer = id THEN INVALID ELSE reset_timer)
       IN  Commit(IF New THEN LapceScrollNew_event(cx, TimerEvent(id), FALSE)
                         ELSE LapceScroll_event(cx, TimerEvent(id), FALSE))
    /\ UNCHANGED <<constrain, fs, wrapper, widget, events, last>>

\* LapceScroll::lifecycle / LapceScrollNew::lifecycle on LifeCycle::Size
on_lifecycle_size ==
    /\ events < MaxEvents
    /\ Commit(IF New THEN LapceScrollNew_lifecycle(CtxNow(timers, reset_timer))
                     ELSE LapceScroll_lifecycle(CtxNow(timers, reset_timer)))
    /\ events' = events + 1
    /\ UNCHANGED <<constrain, fs, wrapper, widget, last>>

\* LapceScroll::layout / LapceScrollNew::layout with the child answering content_size
on_layout(bc, content_size) ==
    /\ events < MaxEvents
    /\ Commit(IF New THEN LapceScrollNew_layout(CtxNow(timers, reset_timer), bc, content_size)
                     ELSE LapceScroll_layout(CtxNow(timers, reset_timer), bc, content_size))
    /\ events' = events + 1
    /\ UNCHANGED <<constrain, fs, wrapper, widget, last>>

NextScroll ==
    \/ \E event \in NewInputs \cup OldInputs, child_handles \in BOOLEAN :
            on_event(event, child_handles)
    \/ \E id \in Tokens : on_timer(id)
    \/ on_lifecycle_size
    \/ \E q \in ContainerLayoutInputs : on_layout(q[1], q[2])

\* the containers under MaxEvents input events and the timers they request
SpecScroll == Init /\ [][NextScroll]_vars

\* ... every requested timer firing in the end
SpecScrollFair ==
    Init /\ [][NextScroll]_vars /\ \A id \in Tokens : WF_vars(on_timer(id))

\* ------------------------------------------------------------- vertical(), horizontal()

\* the constraints the clip box of the container hands to the child
child_bc(bc) ==
    IF New THEN ClipBoxNew_child_bc(constrain, bc) ELSE ClipBox_child_bc(constrain, bc)

\* a container built with new(child), new(child).vertical() or new(child).horizontal()
InitAxis ==
    /\ widget \in {"LapceScroll", "LapceScrollNew"}
    /\ port = Viewport_default
    /\ sc = ScrollComponent_default
    /\ timers = {}
    /\ events = 0
    /\ reset_timer = INVALID
    /\ last = [op |-> "new", ret |-> "none"]
    /\ constrain \in {ClipBox_new, LapceScroll_vertical(ClipBox_new),
                      LapceScroll_horizontal(ClipBox_new)}
    /\ fs = NoFiles
    /\ wrapper = LapceIdentityWrapper_wrap(1)

\* sizes a child may answer: nothing, a millionth of a pixel, the view, a little more
AxisContents == {Size(w, h) : w \in {0, 1, V, V + MaxOff}, h \in {0, 1, V, V + MaxOff}}

AxisLayoutInputs == BoxConstraintsSet \X AxisContents

\* layout of the container around a child that answers a size within its constraints
on_layout_child(bc, content_size) ==
    /\ BoxConstraints_contains(child_bc(bc), content_size)
    /\ on_layout(bc, content_size)

\* targets of ensure_visible, with their margins
EnsureInputs ==
    {<<Rect(x, y, x + 1, y + 1), <<m, m>>>> : x \in {0, V, V + 1}, y \in {0, V, V + 1},
                                             m \in {0, 1}}

\* LapceScroll::ensure_visible, the caller passing the size of the viewport
ensure_visible(rect, margin) ==
    /\ ~New
    /\ LET r == LapceScroll_ensure_visible(port, Rect_size(port.rect), rect, margin)
       IN  /\ port' = r.port
           /\ last' = [op |-> "ensure_visible", ret |-> Ret(r.ret)]
    /\ UNCHANGED <<constrain, fs, wrapper, widget, sc, timers, events, reset_timer>>

NextAxis ==
    \/ \E q \in AxisLayoutInputs : on_layout_child(q[1], q[2])
    \/ \E o \in Points : pan_to(o)
    \/ \E d \in Deltas : pan_by(d)
    \/ \E r \in Rects : pan_to_visible(r)
    \/ \E q \in EnsureInputs : ensure_visible(q[1], q[2])
    \/ \E event \in NewInputs \cup OldInputs, child_handles \in BOOLEAN :
            on_event(event, child_handles)
    \/ \E id \in Tokens : on_timer(id)

\* the containers of each build under scroll, scroll_to, ensure_visible, wheel, layout
SpecAxis == InitAxis /\ [][NextAxis]_vars

\* ------------------------------------------------------------- the scrollbars' geometry

\* views of 40 px, shorter than SCROLLBAR_MIN_SIZE, and of 100 px
BarViews == {40 * Px, V}

\* a view of each size around a child a little smaller, as large, or a little larger
BarLayoutInputs ==
    {<<[min |-> Size(w, h), max |-> Size(w, h)], Size(w + i, h + j)>> :
        w \in BarViews, h \in BarViews, i \in -1 .. MaxOff, j \in -1 .. MaxOff}

\* themes: druid's default (width 8, pad 2), Config::reload_env's (10, 0) and their mixes
Themes == {Env(w, pad) : w \in {8 * Px, 10 * Px}, pad \in {0, 2 * Px}}

BarCoords == {0, 35 * Px, 39 * Px, 40 * Px, 95 * Px, 99 * Px, V}

\* mouse positions in the widget
BarPoints == {Point(x, y) : x \in BarCoords, y \in BarCoords}

NextBars ==
    \/ \E q \in BarLayoutInputs : layout(q[1], q[2])
    \/ \E o \in Points : pan_to(o)

\* layouts and pans that put the port where the scrollbars are computed
SpecBars == Init /\ [][NextBars]_vars

\* ------------------------------------------------------------- the recent workspaces kept

MaxWorkspaces == 2

\* user and host names: a letter, or an at sign
Names == {<<"a">>, <<"@">>}

WorkspaceKinds == {Local} \cup {RemoteSSH(user, host) : user \in Names, host \in Names}

\* paths: one that is valid UTF-8, one that is not
Paths == {<<"p">>, NonUtf8}

\* last_open: the smallest and the largest u64
LastOpens == {0, 2 ^ IntBits - 1}

Workspaces ==
    {LapceWorkspace(kind, path, last_open) :
        kind \in WorkspaceKinds, path \in Paths, last_open \in LastOpens}

WorkspaceLists ==
    UNION {[1 .. n -> Workspaces] : n \in 0 .. MaxWorkspaces}

\* the lists whose paths are valid UTF-8
Utf8Lists ==
    {workspaces \in WorkspaceLists :
        \A i \in 1 .. Len(workspaces) : workspaces[i].path # NonUtf8}

\* the configuration directory at the start: no workspaces.toml, or one that is no TOML,
\* or one without the key "workspaces"
InitWorkspaces ==
    /\ widget = "LapceScrollNew"
    /\ port = Viewport_default
    /\ sc = ScrollComponent_default
    /\ timers = {}
    /\ events = 0
    /\ reset_timer = INVALID
    /\ constrain = ClipBox_new
    /\ wrapper = LapceIdentityWrapper_wrap(1)
    /\ last = [op |-> "new", ret |-> NoneOf(<< >>)]
    /\ fs \in {[NoFiles EXCEPT !.workspaces = file] : file \in {NoFile, InvalidFile, EmptyFile}}

\* a call of Config::update_recent_workspaces; it returns None always
on_update_recent_workspaces(workspaces) ==
    /\ fs' = update_recent_workspaces(fs, workspaces)
    /\ last' = [op |-> "update_recent_workspaces", ret |-> NoneOf(<< >>)]
    /\ UNCHANGED <<constrain, wrapper, widget, port, sc, timers, events, reset_timer>>

\* a call of Config::recent_workspaces
on_recent_workspaces ==
    /\ fs' = recent_workspaces_file(fs)
    /\ last' = [op |-> "recent_workspaces", ret |-> recent_workspaces(fs)]
    /\ UNCHANGED <<constrain, wrapper, widget, port, sc, timers, events, reset_timer>>

NextWorkspaces ==
    \/ \E workspaces \in WorkspaceLists : on_update_recent_workspaces(workspaces)
    \/ on_recent_workspaces

SpecWorkspaces == InitWorkspaces /\ [][NextWorkspaces]_vars

\* ------------------------------------------------------------- a wrapped widget

MaxCalls == 3

WidgetIds == {1, 2}

\* the event, or the data, a call carries
CallArgs == {1, 2}

\* the sizes the inner widget answers in layout
InnerSizes == {Size_ZERO, Size(V, V)}

\* LapceIdentityWrapper::wrap(inner, id) for some id, remembered as what wrap was given
InitWrapper ==
    /\ widget = "LapceScrollNew"
    /\ port = Viewport_default
    /\ sc = ScrollComponent_default
    /\ timers = {}
    /\ events = 0
    /\ reset_timer = INVALID
    /\ constrain = ClipBox_new
    /\ fs = NoFiles
    /\ \E id \in WidgetIds :
          /\ wrapper = LapceIdentityWrapper_wrap(id)
          /\ last = [op |-> "wrap", ret |-> id]

\* event, lifecycle, update or paint called on the wrapper
wrapper_call(method, args) ==
    /\ Len(wrapper.calls) < MaxCalls
    /\ wrapper' = LapceIdentityWrapper_forward(wrapper, method, args)
    /\ UNCHANGED <<constrain, fs, widget, port, sc, timers, events, reset_timer, last>>

\* layout called on the wrapper
wrapper_layout(bc, inner_size) ==
    /\ Len(wrapper.calls) < MaxCalls
    /\ wrapper' = LapceIdentityWrapper_layout(wrapper, bc, inner_size)
    /\ UNCHANGED <<constrain, fs, widget, port, sc, timers, events, reset_timer, last>>

NextWrapper ==
    \/ \E method \in {"event", "lifecycle", "update", "paint"}, args \in CallArgs :
            wrapper_call(method, args)
    \/ \E bc \in BoxConstraintsSet, inner_size \in InnerSizes :
            wrapper_layout(bc, inner_size)

SpecWrapper == InitWrapper /\ [][NextWrapper]_vars

\* ------------------------------------------------------------- the settings kept

MaxKeyLen == 3

MaxUpdates == 2

\* the keys update_file is given: letters and dots
Keys == UNION {[1 .. n -> {"a", "."}] : n \in 1 .. MaxKeyLen}

\* the values: a string, or an empty table
Values == {"y", "table"}

\* the key paths of the settings.toml found at the start
DocPaths == {<< <<"a">> >>, << <<"a">>, <<"a">> >>, << <<"b">> >>}

\* the documents over them: what lies under a key path lies in a table
SettingsDocs ==
    {doc \in UNION {[S -> {"x", "table"}] : S \in SUBSET DocPaths} :
        \A path \in DOMAIN doc :
            Len(path) > 1 =>
                /\ SubSeq(path, 1, Len(path) - 1) \in DOMAIN doc
                /\ doc[SubSeq(path, 1, Len(path) - 1)] = "table"}

\* the configuration directory at the start: no settings.toml, or one that is no TOML,
\* or a document
InitSettings ==
    /\ widget = "LapceScrollNew"
    /\ port = Viewport_default
    /\ sc = ScrollComponent_default
    /\ timers = {}
    /\ events = 0
    /\ reset_timer = INVALID
    /\ constrain = ClipBox_new
    /\ wrapper = LapceIdentityWrapper_wrap(1)
    /\ last = [op |-> "new", ret |-> "none"]
    /\ fs \in {[NoFiles EXCEPT !.settings = file] :
                 file \in {NoFile, InvalidFile} \cup {File("toml", doc) : doc \in SettingsDocs}}

\* a call of Config::update_file; it returns None always
on_update_file(key, value) ==
    /\ events < MaxUpdates
    /\ fs' = update_file(fs, key, value)
    /\ events' = events + 1
    /\ UNCHANGED <<constrain, wrapper, widget, port, sc, timers, reset_timer, last>>

NextSettings == \E key \in Keys, value \in Values : on_update_file(key, value)

SpecSettings == InitSettings /\ [][NextSettings]_vars

\* ------------------------------------------------------------- properties: helpers

clamp_view_origin(o) ==
    IF New THEN ViewportNew_clamp_view_origin(port, o) ELSE Viewport_clamp_view_origin(port, o)

\* the largest valid origin on an axis: max(0, content size - view size)
OriginMaxX(p) == Max(0, p.content_size.width - Rect_width(p.rect))

OriginMaxY(p) == Max(0, p.content_size.height - Rect_height(p.rect))

\* the offset is valid: the origin is inside the content on each axis
Inside(p) ==
    /\ 0 <= p.rect.x0 /\ p.rect.x0 <= OriginMaxX(p)
    /\ 0 <= p.rect.y0 /\ p.rect.y0 <= OriginMaxY(p)

\* rectangle b lies in rectangle a
Contains(a, b) == a.x0 <= b.x0 /\ b.x1 <= a.x1 /\ a.y0 <= b.y0 /\ b.y1 <= a.y1

ContentRect(p) == Rect(0, 0, p.content_size.width, p.content_size.height)

\* the target is no larger than the view in either dimension
Fits(p, r) == Rect_width(r) <= Rect_width(p.rect) /\ Rect_height(r) <= Rect_height(p.rect)

\* the displacement of least absolute value that brings the interval [t0, t1] into
\* [v0, v1], for t1 - t0 <= v1 - v0
LeastMove(t0, t1, v0, v1) == IF t0 < v0 THEN t0 - v0 ELSE IF t1 > v1 THEN t1 - v1 ELSE 0

LeastMoveTo(p, r) ==
    Vec2(LeastMove(r.x0, r.x1, p.rect.x0, p.rect.x1), LeastMove(r.y0, r.y1, p.rect.y0, p.rect.y1))

Zero == Vec2(0, 0)

\* ------------------------------------------------------------- C1

C2_ClampNearest ==
    \A o \in Points :
        LET c == clamp_view_origin(o)
            mx == port.content_size.width - Rect_width(port.rect)
            my == port.content_size.height - Rect_height(port.rect)
        IN  /\ Contains(ContentRect(port), Rect_with_origin(port.rect, o)) => c = o
            /\ IF mx < 0 THEN c.x = 0
               ELSE /\ c.x \in 0 .. mx
                    /\ \A q \in 0 .. mx : Abs(c.x - o.x) <= Abs(q - o.x)
            /\ IF my < 0 THEN c.y = 0
               ELSE /\ c.y \in 0 .. my
                    /\ \A q \in 0 .. my : Abs(c.y - o.y) <= Abs(q - o.y)

\* a layout has clamped, in a state where clamping keeps one origin, moves another, and
\* the content is smaller than the view in one dimension
C2_Witness ==
    /\ last.op = "layout"
    /\ port.content_size.width > Rect_width(port.rect)
    /\ port.content_size.height < Rect_height(port.rect)
    /\ clamp_view_origin(Point(1, 0)) = Point(1, 0)
    /\ clamp_view_origin(Point(MaxOff + 1, 1)) = Point(port.content_size.width - V, 0)

\* ------------------------------------------------------------- C3

PanTo(o) == IF New THEN ViewportNew_pan_to(port, o) ELSE Viewport_pan_to(port, o)

\* C3: pan_to returns true iff the position changed; when true the new origin is
\* clamp_view_origin(origin); when false the viewport is exactly as before
C3_PanToReturn ==
    \A o \in Points :
        LET r == PanTo(o)
        IN  /\ r.ret <=> (Rect_origin(r.port.rect) # Rect_origin(port.rect))
            /\ r.ret => /\ Rect_origin(r.port.rect) = clamp_view_origin(o)
                        /\ Rect_size(r.port.rect) = Rect_size(port.rect)
                        /\ r.port.content_size = port.content_size
            /\ ~r.ret => r.port = port

\* pan_to has returned true and moved the view off the content's origin
C3_Witness == last = [op |-> "pan_to", ret |-> "true"] /\ port.rect.x0 > 0

\* ------------------------------------------------------------- C4

PanBy(d) == IF New THEN ViewportNew_pan_by(port, d) ELSE Viewport_pan_by(port, d)

\* on each axis the delta is zero or points past an edge the view touches
PastEdge(p, d) ==
    /\ d # Zero
    /\ d.x < 0 => p.rect.x0 = 0
    /\ d.x > 0 => p.rect.x1 = p.content_size.width
    /\ d.y < 0 => p.rect.y0 = 0
    /\ d.y > 0 => p.rect.y1 = p.content_size.height

\* C4 as stated: pan_by with a non-zero delta pointing past an edge the viewport
\* already touches returns false and leaves the offset unchanged
C4_PanByPastEdge ==
    \A d \in Deltas :
        PastEdge(port, d) => PanBy(d).ret = FALSE /\ PanBy(d).port = port

\* C4, amended: ... on a viewport whose offset is valid ...
C4_PanByPastEdgeValid ==
    \A d \in Deltas :
        Inside(port) /\ PastEdge(port, d) => PanBy(d).ret = FALSE /\ PanBy(d).port = port

\* pan_by has returned false with the view at the bottom right of a larger content
C4_Witness ==
    /\ last = [op |-> "pan_by", ret |-> "false"]
    /\ Inside(port)
    /\ port.rect.x0 > 0 /\ port.rect.y0 > 0
    /\ PastEdge(port, Vec2(1, 1))

\* ------------------------------------------------------------- C5

\* the targets C5 and C6 speak of: inside the content, no larger than the view
Showable(p, r) == Contains(ContentRect(p), r) /\ Fits(p, r)

ClampedX(p, x) == Max(0, Min(x, p.content_size.width - Rect_width(p.rect)))

ClampedY(p, y) == Max(0, Min(y, p.content_size.height - Rect_height(p.rect)))

Faded == sc.opacity <= 0 /\ timers = {}

\* C8 as stated: in LapceScrollNew, once reset_scrollbar_fade has made the bars visible
\* and its timer is pending, if no further input event arrives and every timer fires,
\* the opacity falls to 0 or less and from then on no timer is requested
C8_BarsFadeOut ==
    [](New /\ events = MaxEvents /\ sc.timer_id \in timers => <>[]Faded)

\* C8, amended: ... provided no scrollbar is being dragged (held) when the input stops
C8_BarsFadeOutUnlessHeld ==
    [](New /\ events = MaxEvents /\ sc.timer_id \in timers /\ ~are_bars_held(sc)
            => <>[]Faded)

\* the input has stopped and a fade has run to its end
C8_Witness ==
    /\ New
    /\ events = MaxEvents
    /\ sc.fade_interval_id # INVALID
    /\ sc.timer_id = INVALID
    /\ ~are_bars_held(sc)
    /\ sc.opacity <= 0
    /\ sc.opacity > 0 - Diff
    /\ timers = {}

\* ------------------------------------------------------------- C9

\* C9 as stated: in LapceScroll, once a size change has made the bars visible, if no
\* further input event arrives and every timer fires, the opacity falls to 0 or less
C9_OldBarsFadeOut ==
    [](~New /\ events = MaxEvents /\ sc.timer_id \in timers => <>(sc.opacity <= 0))

\* in LapceScroll no step lowers the opacity
C9_OldOpacityNeverFalls ==
    [][~New => sc'.opacity >= sc.opacity]_vars

\* the timer of LapceScroll's reset has fired and the bars are as visible as before
C9_Witness ==
    /\ ~New
    /\ events = MaxEvents
    /\ sc.timer_id # INVALID
    /\ timers = {}
    /\ sc.opacity = MaxOpacity

\* ------------------------------------------------------------- C10

\* C10 as stated: while the timer requested by the latest reset_scrollbar_fade has not
\* fired, no step lowers the opacity and no step requests a fade tick
C10_OpacityHeldUntilTimer ==
    [][reset_timer # INVALID /\ reset_timer' = reset_timer
            => /\ sc'.opacity >= sc.opacity
               /\ sc'.fade_interval_id = sc.fade_interval_id]_vars

\* what holds of C10: ... as long as timer_id still names that timer
C10_OpacityHeldWhileScheduled ==
    [][reset_timer # INVALID /\ reset_timer' = reset_timer /\ sc.timer_id = reset_timer
            => /\ sc'.opacity >= sc.opacity
               /\ sc'.fade_interval_id = sc.fade_interval_id]_vars

\* a fade tick has lowered the opacity while the timer of the latest reset is pending
C10_Witness ==
    /\ New
    /\ reset_timer # INVALID
    /\ reset_timer \in timers
    /\ sc.opacity < MaxOpacity

\* ------------------------------------------------------------- C11

\* C11: calc_vertical_bar_bounds returns None if and only if viewport height >= content
\* height, calc_horizontal_bar_bounds returns None if and only if viewport width >=
\* content width; in every other case they return a rectangle
C11_NoneIffNotVisible ==
    \A env \in Themes :
        /\ ~calc_vertical_bar_bounds(port, env).some
              <=> Rect_height(port.rect) >= port.content_size.height
        /\ ~calc_horizontal_bar_bounds(port, env).some
              <=> Rect_width(port.rect) >= port.content_size.width

\* a layout has left a content taller than the view by less than a pixel and no wider:
\* a vertical bar and no horizontal bar
C11_Witness ==
    /\ last.op = "layout"
    /\ port.content_size.height > Rect_height(port.rect)
    /\ port.content_size.height < Rect_height(port.rect) + Px
    /\ calc_vertical_bar_bounds(port, Config_reload_env).some
    /\ ~calc_horizontal_bar_bounds(port, Config_reload_env).some

\* ------------------------------------------------------------- C12

\* C12 as stated: every rectangle calc_vertical_bar_bounds / calc_horizontal_bar_bounds
\* returns is at least SCROLLBAR_MIN_SIZE long on the bar's primary axis, for every
\* viewport, content size and theme padding and width
C12_BarMinLength ==
    \A env \in Themes :
        /\ calc_vertical_bar_bounds(port, env).some
              => Rect_height(calc_vertical_bar_bounds(port, env).rect) >= SCROLLBAR_MIN_SIZE
        /\ calc_horizontal_bar_bounds(port, env).some
              => Rect_width(calc_horizontal_bar_bounds(port, env).rect) >= SCROLLBAR_MIN_SIZE

\* what holds: the rectangle is SCROLLBAR_PAD shorter than the length the code computes,
\* which is at least SCROLLBAR_MIN_SIZE
C12_BarMinLengthLessPad ==
    \A env \in Themes :
        /\ calc_vertical_bar_bounds(port, env).some
              => Rect_height(calc_vertical_bar_bounds(port, env).rect)
                    >= SCROLLBAR_MIN_SIZE - env.SCROLLBAR_PAD
        /\ calc_horizontal_bar_bounds(port, env).some
              => Rect_width(calc_horizontal_bar_bounds(port, env).rect)
                    >= SCROLLBAR_MIN_SIZE - env.SCROLLBAR_PAD

\* a 40 px view whose content is taller: the bar's length is the minimum
C12_Witness ==
    /\ last.op = "layout"
    /\ Rect_height(port.rect) = 40 * Px
    /\ calc_vertical_bar_bounds(port, Env(8 * Px, 2 * Px)).some
    /\ Rect_height(calc_vertical_bar_bounds(port, Env(8 * Px, 2 * Px)).rect) < SCROLLBAR_MIN_SIZE

\* ------------------------------------------------------------- C13

\* C13: point_hits_vertical_bar(pos) is true exactly when the vertical bar is visible and
\* pos lies in the bar's bounds with the right edge stretched to the right edge of the
\* viewport, and false for every pos when the bar is not visible;
\* point_hits_horizontal_bar likewise with the bottom edge stretched to the bottom
C13_PointHits ==
    \A env \in Themes : \A q \in BarPoints :
        LET pos == Point(q.x + port.rect.x0, q.y + port.rect.y0)
            vb == calc_vertical_bar_bounds(port, env)
            hb == calc_horizontal_bar_bounds(port, env)
        IN  /\ point_hits_vertical_bar(port, pos, env)
                  <=> /\ vb.some
                      /\ vb.rect.x0 <= pos.x /\ pos.x < port.rect.x0 + Rect_width(port.rect)
                      /\ vb.rect.y0 <= pos.y /\ pos.y < vb.rect.y1
            /\ point_hits_horizontal_bar(port, pos, env)
                  <=> /\ hb.some
                      /\ hb.rect.x0 <= pos.x /\ pos.x < hb.rect.x1
                      /\ hb.rect.y0 <= pos.y /\ pos.y < port.rect.y0 + Rect_height(port.rect)

\* a position in the padding right of the vertical bar hits it
C13_Witness ==
    LET env == Env(8 * Px, 2 * Px)
        pos == Point(99 * Px + port.rect.x0, 35 * Px + port.rect.y0)
    IN  /\ Rect_width(port.rect) = V
        /\ point_hits_vertical_bar(port, pos, env)
        /\ ~Rect_contains(calc_vertical_bar_bounds(port, env).rect, pos)

\* ------------------------------------------------------------- C14

\* C14: in LapceScrollNew::event the scrollbar logic sees the event first, the child
\* receives it only if the scrollbar logic did not mark it handled, and the wheel delta
\* pans the viewport only if neither of them marked it handled: a wheel event that
\* reaches handle_scroll unhandled pans by the rounded delta, and every other event
\* leaves the port as the scrollbar logic left it
C14_WheelAfterHandlers ==
    New =>
        \A event \in NewInputs : \A child_handles \in BOOLEAN :
            LET cx == CtxNow(timers, reset_timer)
                seen == ScrollComponentNew_event(cx, event)
                done == LapceScrollNew_event(cx, event, child_handles)
            IN  /\ done.child_event <=> ~seen.handled
                /\ IF event.type = "Wheel" /\ ~seen.handled /\ ~child_handles
                   THEN done.port = ViewportNew_pan_by(seen.port,
                            Vec2(Round(event.wheel_delta.x), Round(event.wheel_delta.y))).port
                   ELSE done.port = seen.port

\* a wheel event has panned a laid-out LapceScrollNew
C14_Witness ==
    /\ New
    /\ events = 2
    /\ port.rect.y0 > 0
    /\ sc.opacity = MaxOpacity

\* ------------------------------------------------------------- C15

\* C15 as stated: in layout a clip box whose constrain_vertical is false gives its child
\* no upper bound on height, and one whose constrain_vertical is true passes its own
\* maximum height down as the child's upper bound; likewise constrain_horizontal and
\* width; for ClipBox and for ClipBoxNew
C15_ChildBound ==
    \A bc \in BoxConstraintsSet :
        /\ child_bc(bc).max.height = IF constrain.vertical THEN bc.max.height ELSE INFINITY
        /\ child_bc(bc).max.width = IF constrain.horizontal THEN bc.max.width ELSE INFINITY

\* what holds: ClipBox does so
C15_OldChildBound ==
    ~New =>
        \A bc \in BoxConstraintsSet :
            /\ child_bc(bc).max.height
                  = IF constrain.vertical THEN bc.max.height ELSE INFINITY
            /\ child_bc(bc).max.width
                  = IF constrain.horizontal THEN bc.max.width ELSE INFINITY

\* a LapceScrollNew built with vertical() has been laid out: its child was bounded in
\* height by the view
C15_Witness ==
    /\ New
    /\ constrain = LapceScroll_vertical(ClipBox_new)
    /\ events > 0
    /\ Rect_height(port.rect) = V
    /\ port.content_size.height <= V

\* ------------------------------------------------------------- C16

\* C16 as stated: in a container built with vertical(), around a child that respects
\* its constraints, the child's width is locked to the viewport width and the horizontal
\* offset stays 0 under every sequence of scroll, scroll_to, ensure_visible, wheel and
\* layout; horizontal() mirrors it for the height and the vertical offset
C16_AxisLocked ==
    /\ constrain = LapceScroll_vertical(ClipBox_new)
          => /\ port.rect.x0 = 0
             /\ port.content_size.width = Rect_width(port.rect)
    /\ constrain = LapceScroll_horizontal(ClipBox_new)
          => /\ port.rect.y0 = 0
             /\ port.content_size.height = Rect_height(port.rect)

\* what holds: the offset on the locked axis stays 0, and the child is no larger than
\* the viewport there
C16_OffsetStaysZero ==
    /\ constrain = LapceScroll_vertical(ClipBox_new)
          => /\ port.rect.x0 = 0
             /\ port.content_size.width <= Rect_width(port.rect)
    /\ constrain = LapceScroll_horizontal(ClipBox_new)
          => /\ port.rect.y0 = 0
             /\ port.content_size.height <= Rect_height(port.rect)

\* a vertical() container has scrolled down
C16_Witness ==
    /\ constrain = LapceScroll_vertical(ClipBox_new)
    /\ port.rect.y0 > 0
    /\ port.rect.x0 = 0

\* ------------------------------------------------------------- C17

\* C17 as stated: for every list of workspaces whose paths are valid UTF-8,
\* update_recent_workspaces(list) followed by recent_workspaces() returns the same
\* workspaces in the same order, each with the same kind, path and last_open
C17_RoundTrip ==
    \A workspaces \in Utf8Lists :
        recent_workspaces(update_recent_workspaces(fs, workspaces)) = SomeOf(workspaces)

\* no user or host name of the list holds an at sign
NoAtSign(workspaces) ==
    \A i \in 1 .. Len(workspaces) :
        /\ \A k \in 1 .. Len(workspaces[i].kind.user) : workspaces[i].kind.user[k] # "@"
        /\ \A k \in 1 .. Len(workspaces[i].kind.host) : workspaces[i].kind.host[k] # "@"

\* what holds: the lists without an at sign in a user or host name come back the same
C17_RoundTripNoAtSign ==
    \A workspaces \in Utf8Lists :
        NoAtSign(workspaces) =>
            recent_workspaces(update_recent_workspaces(fs, workspaces)) = SomeOf(workspaces)

\* a list of a remote and a local workspace was written and read back
C17_Witness ==
    /\ last.op = "recent_workspaces"
    /\ last.ret.some
    /\ Len(last.ret.value) = 2
    /\ last.ret.value[1].kind = RemoteSSH(<<"a">>, <<"a">>)
    /\ last.ret.value[1].last_open = 2 ^ IntBits - 1
    /\ last.ret.value[2].kind = Local
    /\ fs.workspaces = File("toml", [workspaces |-> workspaces_array(last.ret.value)])

\* ------------------------------------------------------------- C18

\* C18: each event, lifecycle, update, layout and paint call on a LapceIdentityWrapper
\* has been forwarded to the inner widget exactly once, in order, with the same
\* arguments; layout returned the size the inner widget answered; id() returns the
\* WidgetId given to wrap()
C18_PureDelegation ==
    /\ wrapper.inner = wrapper.calls
    /\ LapceIdentityWrapper_id(wrapper) = SomeOf(last.ret)

\* the wrapper of id 2 got as many calls as the bound allows, an event and a layout the
\* inner widget answered with a size that is not the smallest among them
C18_Witness ==
    /\ wrapper.id = 2
    /\ Len(wrapper.calls) = MaxCalls
    /\ \E i \in 1 .. Len(wrapper.calls) : wrapper.calls[i].method = "event"
    /\ \E i \in 1 .. Len(wrapper.calls) :
          /\ wrapper.calls[i].method = "layout"
          /\ wrapper.calls[i].size = Size(V, V)

\* ------------------------------------------------------------- C19

\* path leads to b or b to path
Related(path, b) == IsPrefix(path, b) \/ IsPrefix(b, path)

\* C19: update_file(key, value) on a readable settings file sets the value at the dotted
\* key path, creating missing intermediate tables, and leaves every other key of the
\* file unchanged; when the file cannot be read, or an intermediate key of the path
\* holds a non-table value, the file is left unchanged
C19_UpdateFile ==
    \A key \in Keys : \A value \in Values :
        LET parts == Split(key, ".")
            doc == settings_document(fs.settings)
            after == update_file(fs, key, value)
            blocked == \E i \in 1 .. Len(parts) - 1 :
                           /\ SubSeq(parts, 1, i) \in DOMAIN doc
                           /\ doc[SubSeq(parts, 1, i)] # "table"
        IN  /\ after.workspaces = fs.workspaces
            /\ IF fs.settings.state = "absent" \/ blocked
               THEN after.settings = fs.settings
               ELSE /\ after.settings.state = "toml"
                    /\ parts \in DOMAIN after.settings.value
                    /\ after.settings.value[parts] = value
                    /\ \A i \in 1 .. Len(parts) - 1 :
                          /\ SubSeq(parts, 1, i) \in DOMAIN after.settings.value
                          /\ after.settings.value[SubSeq(parts, 1, i)] = "table"
                    /\ \A path \in DOMAIN doc \cup DOMAIN after.settings.value :
                          ~Related(parts, path) =>
                              /\ path \in DOMAIN doc
                              /\ path \in DOMAIN after.settings.value
                              /\ after.settings.value[path] = doc[path]

\* an update has set a.a to the string in a document that keeps its key b
C19_Witness ==
    /\ events > 0
    /\ fs.settings.state = "toml"
    /\ << <<"a">>, <<"a">> >> \in DOMAIN fs.settings.value
    /\ fs.settings.value[<< <<"a">>, <<"a">> >>] = "y"
    /\ fs.settings.value[<< <<"a">> >>] = "table"
    /\ << <<"b">> >> \in DOMAIN fs.settings.value
    /\ fs.settings.value[<< <<"b">> >>] = "x"

====
